---- MODULE Spec2Model ----
(***************************************************************************)
(* Chat / message subsystem of NodeJS-Chat-Application: the Chat and       *)
(* Message collections and the HTTP handlers of chatController.js and of   *)
(* the message controller, as a state machine.                             *)
(*                                                                         *)
(* Spec     : every handler runs to completion before the next starts.     *)
(* SpecRace : handlers of two requests interleave at their awaits, one     *)
(*            database call per step.                                      *)
(***************************************************************************)
EXTENDS Integers, Sequences, FiniteSets, Bags, TLC

VARIABLES chats, messages, last, reqs, updatedAt, io

vars == <<chats, messages, last, reqs, updatedAt, io>>

(* ------------------------------ bounds --------------------------------- *)

MaxChats == 2

MaxMessages == 1

MaxInFlight == 2

\* the chats of SpecChat, of SpecDirect and of SpecRead
ChatMaxChats == 1

DirectMaxChats == 2

ReadMaxChats == 1

\* the messages of SpecRead
ReadMaxMessages == 2

(* ----------------------------- identifiers ----------------------------- *)

\* documents of the users collection (the Identity Provider's users)
Users == {"a1", "b2", "c3"}

\* a 24-hex id that no user document has
Ghost == "d4"

\* an id that fails /^[0-9a-fA-F]{24}$/
Malformed == "zz"

HexIds == Users \cup {Ghost}

UserIdInputs == Users \cup {Ghost, Malformed}

\* Joi.string().regex(/^[0-9a-fA-F]{24}$/)
WellFormed(id) == id \in HexIds

\* the id of a chat or of a message that fails /^[0-9a-fA-F]{24}$/; the ids
\* that pass it are the positions in the collection, found there or not
MalformedId == -1

\* WellFormedId that lets every id pass
AnyId(id) == TRUE

\* Joi.string().required().regex(/^[0-9a-fA-F]{24}$/) on chatId and messageId
WellFormedId(id) == id # MalformedId

\* User.findOne({ _id: userId })
UserFindOne(id) == id \in Users

(* ------------------------------ arrays --------------------------------- *)
(* An array of ids is a multiset: the handlers test membership, push, pull *)
(* and take the length of these arrays, and never read a position.         *)

\* the array a request carries, as it is stored
Array(list) ==
    [e \in {list[i] : i \in DOMAIN list} |->
        Cardinality({i \in DOMAIN list : list[i] = e})]

Elems(arr) == BagToSet(arr)

\* { arr: { $elemMatch: { $eq: v } } }
ElemMatch(arr, v) == BagIn(v, arr)

\* { $push: { arr: v } }
Push(arr, v) == arr (+) SetToBag({v})

\* { $pull: { arr: v } }: every occurrence goes
Pull(arr, v) == [e \in DOMAIN arr \ {v} |-> arr[e]]

\* arr.length
Length(arr) == BagCardinality(arr)

\* Joi.array().unique()
Unique(list) == \A i, j \in DOMAIN list : i # j => list[i] # list[j]

\* arr.some((user) => user._id.toString() === id)
Some(arr, id) == BagIn(id, arr)

\* the first document of a query result: the lowest id of a non-empty set
First(S) == CHOOSE i \in S : \A j \in S : i <= j

(* ------------------------------ documents ------------------------------ *)

\* latestMessage of a chat that never received a message (the path is unset)
NoMessage == 0

\* the document id of a response that returns no document (an error response)
NoChat == 0

\* Chat.create({ chatName: "sender", isGroupChat: false, users: [me, userId] })
NewDirectChat(by, userId) ==
    [isGroupChat |-> FALSE, chatName |-> "sender", users |-> Array(<<by, userId>>),
     groupAdmins |-> EmptyBag, latestMessage |-> NoMessage]

\* Chat.create({ isGroupChat: true, chatName, groupAdmins: [me], users: [...value.users] })
NewGroupChat(by, chatName, users) ==
    [isGroupChat |-> TRUE, chatName |-> chatName, users |-> Array(users),
     groupAdmins |-> Array(<<by>>), latestMessage |-> NoMessage]

\* Message.create({ content, chat, sender }); readBy defaults to []
NewMessage(chatId, by, content) ==
    [chat |-> chatId, sender |-> by, content |-> content, readBy |-> EmptyBag]

\* what a handler leaves behind: the response and the two collections
\* touched is the chat whose document the handler wrote, if it wrote one
Reply(status, id, cs, ms) ==
    [status |-> status, id |-> id, chats |-> cs, messages |-> ms, touched |-> NoChat]

\* the reply of a handler that wrote the chat it returns, by Chat.create or by
\* Chat.findByIdAndUpdate
Write(status, id, cs, ms) ==
    [Reply(status, id, cs, ms) EXCEPT !.touched = id]

\* FindGroupChat without isGroupChat: true in the filter
FindChatOfAnyKind(cs, chatId) == chatId \in DOMAIN cs

\* Chat.findOne({ _id: chatId, isGroupChat: true })
FindGroupChat(cs, chatId) == chatId \in DOMAIN cs /\ cs[chatId].isGroupChat

(* --------------------------- chatController ---------------------------- *)

\* FindDirectChats without isGroupChat: false in the filter
FindChatsOfAnyKind(cs, by, userId) ==
    {c \in DOMAIN cs : ElemMatch(cs[c].users, by) /\ ElemMatch(cs[c].users, userId)}

\* Chat.find({ isGroupChat: false, $and: [users has me, users has userId] })
FindDirectChats(cs, by, userId) ==
    {c \in DOMAIN cs : /\ ~cs[c].isGroupChat
                       /\ ElemMatch(cs[c].users, by)
                       /\ ElemMatch(cs[c].users, userId)}

\* getOrCreateChat without the check of userId against the requester
getOrCreateChatWithSelf(cs, ms, by, userId) ==
    IF ~WellFormed(userId) THEN Reply("Invalid", NoChat, cs, ms)
    ELSE IF ~UserFindOne(userId) THEN Reply("UserNotFound", NoChat, cs, ms)
    ELSE LET chat == FindDirectChats(cs, by, userId) IN
         IF chat # {} THEN Reply("Success", First(chat), cs, ms)
         ELSE Write("Success", Len(cs) + 1, Append(cs, NewDirectChat(by, userId)), ms)

getOrCreateChat(cs, ms, by, userId) ==
    IF ~WellFormed(userId) THEN Reply("Invalid", NoChat, cs, ms)
    ELSE IF ~UserFindOne(userId) THEN Reply("UserNotFound", NoChat, cs, ms)
    ELSE IF userId = by THEN Reply("SelfChat", NoChat, cs, ms)
    ELSE LET chat == FindDirectChats(cs, by, userId) IN
         IF chat # {} THEN Reply("Success", First(chat), cs, ms)
         ELSE Write("Success", Len(cs) + 1, Append(cs, NewDirectChat(by, userId)), ms)

\* Joi.string().min(3).max(50)
ValidChatName(chatName) == Len(chatName) >= 3 /\ Len(chatName) <= 50

\* Joi.array().items(hex id).min(1).unique()
ValidUserList(users) ==
    /\ Len(users) >= 1
    /\ \A i \in DOMAIN users : WellFormed(users[i])
    /\ Unique(users)

createGroupChat(cs, ms, by, chatName, users) ==
    IF ~(ValidUserList(users) /\ ValidChatName(chatName))
    THEN Reply("Invalid", NoChat, cs, ms)
    ELSE IF \E i \in DOMAIN users : users[i] = by THEN Reply("SelfChat", NoChat, cs, ms)
    ELSE IF \E i \in DOMAIN users : ~UserFindOne(users[i])
    THEN Reply("UserNotFound", NoChat, cs, ms)
    ELSE Write("Success", Len(cs) + 1, Append(cs, NewGroupChat(by, chatName, users)), ms)

\* renameGroupChat that only an admin of the group may call
renameGroupChatByAdmin(cs, ms, by, chatId, chatName) ==
    IF ~(WellFormedId(chatId) /\ ValidChatName(chatName)) THEN Reply("Invalid", NoChat, cs, ms)
    ELSE IF ~FindGroupChat(cs, chatId) THEN Reply("ChatNotFound", NoChat, cs, ms)
    ELSE IF ~Some(cs[chatId].groupAdmins, by) THEN Reply("NotAdmin", NoChat, cs, ms)
    ELSE Write("Success", chatId, [cs EXCEPT ![chatId].chatName = chatName], ms)

renameGroupChat(cs, ms, by, chatId, chatName) ==
    IF ~(WellFormedId(chatId) /\ ValidChatName(chatName)) THEN Reply("Invalid", NoChat, cs, ms)
    ELSE IF ~FindGroupChat(cs, chatId) THEN Reply("ChatNotFound", NoChat, cs, ms)
    ELSE Write("Success", chatId, [cs EXCEPT ![chatId].chatName = chatName], ms)

\* UserExistOnChat without the groupAdmins branch of $or
UserExistInUsers(cs, chatId, userId) ==
    /\ FindGroupChat(cs, chatId)
    /\ ElemMatch(cs[chatId].users, userId)

\* Chat.findOne({ _id, isGroupChat: true, $or: [users has userId, groupAdmins has userId] })
UserExistOnChat(cs, chatId, userId) ==
    /\ FindGroupChat(cs, chatId)
    /\ \/ ElemMatch(cs[chatId].users, userId)
       \/ ElemMatch(cs[chatId].groupAdmins, userId)

addtoGroup(cs, ms, by, chatId, userId) ==
    IF ~(WellFormedId(chatId) /\ WellFormed(userId)) THEN Reply("Invalid", NoChat, cs, ms)
    ELSE IF ~FindGroupChat(cs, chatId) THEN Reply("ChatNotFound", NoChat, cs, ms)
    ELSE IF ~UserFindOne(userId) THEN Reply("UserNotFound", NoChat, cs, ms)
    ELSE IF UserExistOnChat(cs, chatId, userId) THEN Reply("AlreadyAdded", NoChat, cs, ms)
    ELSE Write("Success", chatId, [cs EXCEPT ![chatId].users = Push(@, userId)], ms)

\* updateGroupUsers without the admin check
updateGroupUsersByAnyone(cs, ms, by, chatId, users) ==
    IF ~(WellFormedId(chatId) /\ ValidUserList(users)) THEN Reply("Invalid", NoChat, cs, ms)
    ELSE IF ~FindGroupChat(cs, chatId) THEN Reply("ChatNotFound", NoChat, cs, ms)
    ELSE Write("Success", chatId, [cs EXCEPT ![chatId].users = Array(users)], ms)

updateGroupUsers(cs, ms, by, chatId, users) ==
    IF ~(WellFormedId(chatId) /\ ValidUserList(users)) THEN Reply("Invalid", NoChat, cs, ms)
    ELSE IF ~FindGroupChat(cs, chatId) THEN Reply("ChatNotFound", NoChat, cs, ms)
    ELSE IF ~Some(cs[chatId].groupAdmins, by) THEN Reply("NotAdmin", NoChat, cs, ms)
    ELSE Write("Success", chatId, [cs EXCEPT ![chatId].users = Array(users)], ms)

\* the handler of PUT /chats/group/admins writes the same path, users
updateAdminUsers(cs, ms, by, chatId, users) ==
    IF ~(WellFormedId(chatId) /\ ValidUserList(users)) THEN Reply("Invalid", NoChat, cs, ms)
    ELSE IF ~FindGroupChat(cs, chatId) THEN Reply("ChatNotFound", NoChat, cs, ms)
    ELSE IF ~Some(cs[chatId].groupAdmins, by) THEN Reply("NotAdmin", NoChat, cs, ms)
    ELSE Write("Success", chatId, [cs EXCEPT ![chatId].users = Array(users)], ms)

\* removeFromGroup that looks the member up before it looks at the admins
removeFromGroupMemberFirst(cs, ms, by, chatId, userId) ==
    IF ~(WellFormedId(chatId) /\ WellFormed(userId)) THEN Reply("Invalid", NoChat, cs, ms)
    ELSE IF ~UserFindOne(userId) THEN Reply("UserNotFound", NoChat, cs, ms)
    ELSE IF ~FindGroupChat(cs, chatId) THEN Reply("ChatNotFound", NoChat, cs, ms)
    ELSE IF ~ElemMatch(cs[chatId].users, userId) THEN Reply("NotOnChat", NoChat, cs, ms)
    ELSE LET isLoggedInUserAdmin == Some(cs[chatId].groupAdmins, by) IN
         IF ~isLoggedInUserAdmin /\ userId # by THEN Reply("NotAdmin", NoChat, cs, ms)
         ELSE IF /\ isLoggedInUserAdmin
                 /\ Length(cs[chatId].groupAdmins) = 1
                 /\ userId = by
         THEN Reply("SoleAdmin", NoChat, cs, ms)
         ELSE Write("Success", chatId, [cs EXCEPT ![chatId].users = Pull(@, userId)], ms)

\* removeFromGroup without the admin check
removeFromGroupByAnyone(cs, ms, by, chatId, userId) ==
    IF ~(WellFormedId(chatId) /\ WellFormed(userId)) THEN Reply("Invalid", NoChat, cs, ms)
    ELSE IF ~UserFindOne(userId) THEN Reply("UserNotFound", NoChat, cs, ms)
    ELSE IF ~FindGroupChat(cs, chatId) THEN Reply("ChatNotFound", NoChat, cs, ms)
    ELSE LET isLoggedInUserAdmin == Some(cs[chatId].groupAdmins, by) IN
         IF /\ isLoggedInUserAdmin
            /\ Length(cs[chatId].groupAdmins) = 1
            /\ userId = by
         THEN Reply("SoleAdmin", NoChat, cs, ms)
         ELSE IF ~ElemMatch(cs[chatId].users, userId)
         THEN Reply("NotOnChat", NoChat, cs, ms)
         ELSE Write("Success", chatId, [cs EXCEPT ![chatId].users = Pull(@, userId)], ms)

\* removeFromGroup that pulls the user from groupAdmins as well, without the
\* sole-admin check
removeFromGroupDemoting(cs, ms, by, chatId, userId) ==
    IF ~(WellFormedId(chatId) /\ WellFormed(userId)) THEN Reply("Invalid", NoChat, cs, ms)
    ELSE IF ~UserFindOne(userId) THEN Reply("UserNotFound", NoChat, cs, ms)
    ELSE IF ~FindGroupChat(cs, chatId) THEN Reply("ChatNotFound", NoChat, cs, ms)
    ELSE LET isLoggedInUserAdmin == Some(cs[chatId].groupAdmins, by) IN
         IF ~isLoggedInUserAdmin /\ userId # by THEN Reply("NotAdmin", NoChat, cs, ms)
         ELSE IF ~ElemMatch(cs[chatId].users, userId)
         THEN Reply("NotOnChat", NoChat, cs, ms)
         ELSE Write("Success", chatId,
                    [cs EXCEPT ![chatId].users = Pull(@, userId),
                               ![chatId].groupAdmins = Pull(@, userId)], ms)

\* removeFromGroup without the lookup of the member in users
removeFromGroupUnchecked(cs, ms, by, chatId, userId) ==
    IF ~(WellFormedId(chatId) /\ WellFormed(userId)) THEN Reply("Invalid", NoChat, cs, ms)
    ELSE IF ~UserFindOne(userId) THEN Reply("UserNotFound", NoChat, cs, ms)
    ELSE IF ~FindGroupChat(cs, chatId) THEN Reply("ChatNotFound", NoChat, cs, ms)
    ELSE LET isLoggedInUserAdmin == Some(cs[chatId].groupAdmins, by) IN
         IF ~isLoggedInUserAdmin /\ userId # by THEN Reply("NotAdmin", NoChat, cs, ms)
         ELSE IF /\ isLoggedInUserAdmin
                 /\ Length(cs[chatId].groupAdmins) = 1
                 /\ userId = by
         THEN Reply("SoleAdmin", NoChat, cs, ms)
         ELSE Write("Success", chatId, [cs EXCEPT ![chatId].users = Pull(@, userId)], ms)

removeFromGroup(cs, ms, by, chatId, userId) ==
    IF ~(WellFormedId(chatId) /\ WellFormed(userId)) THEN Reply("Invalid", NoChat, cs, ms)
    ELSE IF ~UserFindOne(userId) THEN Reply("UserNotFound", NoChat, cs, ms)
    ELSE IF ~FindGroupChat(cs, chatId) THEN Reply("ChatNotFound", NoChat, cs, ms)
    ELSE LET isLoggedInUserAdmin == Some(cs[chatId].groupAdmins, by) IN
         IF ~isLoggedInUserAdmin /\ userId # by THEN Reply("NotAdmin", NoChat, cs, ms)
         ELSE IF /\ isLoggedInUserAdmin
                 /\ Length(cs[chatId].groupAdmins) = 1
                 /\ userId = by
         THEN Reply("SoleAdmin", NoChat, cs, ms)
         ELSE IF ~ElemMatch(cs[chatId].users, userId)
         THEN Reply("NotOnChat", NoChat, cs, ms)
         ELSE Write("Success", chatId, [cs EXCEPT ![chatId].users = Pull(@, userId)], ms)

(* -------------------------- message controller ------------------------- *)

\* Mongoose's strictQuery: a filter key that is no path of the schema is
\* dropped from the filter before the query is sent
strictQuery == TRUE

\* UserAttached that matches on groupAdmins as well
UserAttachedOrAdmin(cs, chatId, by) ==
    /\ chatId \in DOMAIN cs
    /\ ElemMatch(cs[chatId].users, by) \/ ElemMatch(cs[chatId].groupAdmins, by)

\* Chat.findOne({ _id: chatId, users: { $elemMatch: { $eq: me } } })
UserAttached(cs, chatId, by) ==
    chatId \in DOMAIN cs /\ ElemMatch(cs[chatId].users, by)

\* Joi.string().required(): the empty string is no value
ValidContent(content) == content # ""

\* sendMessage without the update of latestMessage
sendMessageUnlinked(cs, ms, by, chatId, content) ==
    IF ~(WellFormedId(chatId) /\ ValidContent(content)) THEN Reply("Invalid", NoChat, cs, ms)
    ELSE IF ~UserAttached(cs, chatId, by) THEN Reply("NotAttached", NoChat, cs, ms)
    ELSE Reply("Success", Len(ms) + 1, cs, Append(ms, NewMessage(chatId, by, content)))

sendMessage(cs, ms, by, chatId, content) ==
    IF ~(WellFormedId(chatId) /\ ValidContent(content)) THEN Reply("Invalid", NoChat, cs, ms)
    ELSE IF ~UserAttached(cs, chatId, by) THEN Reply("NotAttached", NoChat, cs, ms)
    ELSE LET createdMessage == Len(ms) + 1 IN
         [Reply("Success", createdMessage,
                [cs EXCEPT ![chatId].latestMessage = createdMessage],
                Append(ms, NewMessage(chatId, by, content)))
             EXCEPT !.touched = chatId]

\* MessageExist without readBy: { $nin: [me] } in the filter
MessageExistAlreadyRead(ms, messageId, by) == messageId \in DOMAIN ms

\* Message.findOne({ _id, $ne: { sender: me }, readBy: { $nin: [me] } }):
\* "$ne" heads no path of the schema, so the sender is not part of what is
\* matched; the filter that reaches the store is { _id, readBy: { $nin: [me] } }
MessageExist(ms, messageId, by) ==
    /\ messageId \in DOMAIN ms
    /\ ~ElemMatch(ms[messageId].readBy, by)

\* updateReadBy without the lookup of the reader on the chat
updateReadByUnattached(cs, ms, by, messageId) ==
    IF ~WellFormedId(messageId) THEN Reply("Invalid", NoChat, cs, ms)
    ELSE IF ~strictQuery THEN Reply("ServerError", NoChat, cs, ms)
    ELSE IF ~MessageExist(ms, messageId, by) THEN Reply("InvalidMessage", NoChat, cs, ms)
    ELSE Reply("Success", messageId, cs, [ms EXCEPT ![messageId].readBy = Push(@, by)])

\* updateReadBy that writes the reader over readBy
updateReadByReplacing(cs, ms, by, messageId) ==
    IF ~WellFormedId(messageId) THEN Reply("Invalid", NoChat, cs, ms)
    ELSE IF ~strictQuery THEN Reply("ServerError", NoChat, cs, ms)
    ELSE IF ~MessageExist(ms, messageId, by) THEN Reply("InvalidMessage", NoChat, cs, ms)
    ELSE IF ~UserAttached(cs, ms[messageId].chat, by)
    THEN Reply("NotAttached", NoChat, cs, ms)
    ELSE Reply("Success", messageId, cs, [ms EXCEPT ![messageId].readBy = SetToBag({by})])

updateReadBy(cs, ms, by, messageId) ==
    IF ~WellFormedId(messageId) THEN Reply("Invalid", NoChat, cs, ms)
    ELSE IF ~strictQuery THEN Reply("ServerError", NoChat, cs, ms)
    ELSE IF ~MessageExist(ms, messageId, by) THEN Reply("InvalidMessage", NoChat, cs, ms)
    ELSE IF ~UserAttached(cs, ms[messageId].chat, by)
    THEN Reply("NotAttached", NoChat, cs, ms)
    ELSE Reply("Success", messageId, cs, [ms EXCEPT ![messageId].readBy = Push(@, by)])

\* getAllChats, $match: the chats that list the user in users or in groupAdmins
MatchedChats(cs, by) ==
    {c \in DOMAIN cs : ElemMatch(cs[c].users, by) \/ ElemMatch(cs[c].groupAdmins, by)}

\* unReadCount without the $in of readBy in the pipeline
unReadCountOfUnsent(ms, chatId, by) ==
    Cardinality({m \in DOMAIN ms : ms[m].chat = chatId /\ ms[m].sender # by})

\* getAllChats, $lookup of messages with its pipeline, then $size
unReadCount(ms, chatId, by) ==
    Cardinality({m \in DOMAIN ms : /\ ms[m].chat = chatId
                                   /\ ms[m].sender # by
                                   /\ ~(by \in Elems(ms[m].readBy))})

getAllChats(cs, ms, by) ==
    [c \in MatchedChats(cs, by) |-> unReadCount(ms, c, by)]

Reverse(list) == [i \in 1 .. Len(list) |-> list[Len(list) + 1 - i]]

\* SortByUpdatedAt with updatedAt: 1
SortByUpdatedAtAscending(S, at) == SelectSeq(at, LAMBDA c : c \in S)

\* getAllChats, { $sort: { updatedAt: -1 } }: the chats of S, the one written
\* last first; at holds the chats from the one written longest ago on
SortByUpdatedAt(S, at) == Reverse(SelectSeq(at, LAMBDA c : c \in S))

\* MessageFind without chat in the filter
MessageFindAll(ms, chatId) == [i \in DOMAIN ms |-> i]

\* Message.find({ chat: chatId }): the messages of the chat in the order of
\* the store, which is the order of their creation
MessageFind(ms, chatId) ==
    SelectSeq([i \in DOMAIN ms |-> i], LAMBDA m : ms[m].chat = chatId)

\* UserOnChat without the $or on users and groupAdmins
ChatOfAnyone(cs, chatId, by) == chatId \in DOMAIN cs

\* Chat.findOne({ _id: chatId, $or: [users has me, groupAdmins has me] })
UserOnChat(cs, chatId, by) ==
    /\ chatId \in DOMAIN cs
    /\ \/ ElemMatch(cs[chatId].users, by)
       \/ ElemMatch(cs[chatId].groupAdmins, by)

\* the response of GET /messages: the status and the messages returned
getAllMessages(cs, ms, by, chatId) ==
    IF ~WellFormedId(chatId) THEN [status |-> "Invalid", messages |-> <<>>]
    ELSE IF ~UserOnChat(cs, chatId, by) THEN [status |-> "NotAttached", messages |-> <<>>]
    ELSE [status |-> "Success", messages |-> MessageFind(ms, chatId)]

(* ------------------------------ websockets ----------------------------- *)
(* io is the socket.io server: the connections, the rooms each has joined, *)
(* the presence map onlineUsers, and what each connection has been sent.   *)
(* A connection is named by the order in which it connected; socket.id is  *)
(* never given twice.  The event handlers hold no await: each is one step. *)

\* the user ids and the chat ids the events of the clients carry
SocketUsers == {"a1", "b2"}

ChatRooms == {"k1"}

\* onlineUsers[userId] of a key the object does not hold
NoSocket == 0

NoEvent ==
    [name |-> "none", socket |-> NoSocket, userId |-> "", chatId |-> "", message |-> <<>>]

\* const onlineUsers = {}, and no connection yet; setups keeps, for each
\* connection that is there, the user ids it has sent setup with
NoSockets ==
    [sockets |-> {}, connected |-> 0, rooms |-> <<>>, inbox |-> <<>>, setups |-> <<>>,
     onlineUsers |-> [u \in SocketUsers |-> NoSocket],
     event |-> NoEvent, emitted |-> 0, thrown |-> FALSE]

\* a field the payload of an event does not have
Undefined == "undefined"

\* a TypeError leaves the listener: no try surrounds the body of a listener,
\* so what it did before the error stays done and the rest is not run
Throw(ws) == [ws EXCEPT !.thrown = TRUE]

\* onConnection that hands a new connection what the first one was sent
onConnectionResumed(ws) ==
    [ws EXCEPT !.connected = @ + 1,
               !.sockets = @ \cup {ws.connected + 1},
               !.rooms = Append(@, {}),
               !.setups = Append(@, {}),
               !.inbox = Append(@, IF @ = <<>> THEN <<>> ELSE @[1])]

\* io.on('connection'): the connection gets its socket.id
onConnection(ws) ==
    [ws EXCEPT !.connected = @ + 1,
               !.sockets = @ \cup {ws.connected + 1},
               !.rooms = Append(@, {}),
               !.setups = Append(@, {}),
               !.inbox = Append(@, <<>>)]

\* socket.join(room)
Join(ws, s, room) == [ws EXCEPT !.rooms[s] = @ \cup {room}]

\* the connections of a room
InRoom(ws, room) == {s \in ws.sockets : room \in ws.rooms[s]}

\* .emit(name, body) to the connections of to: each is sent the event now,
\* and a connection that is not there is sent nothing later
Emit(ws, to, name, body) ==
    [ws EXCEPT !.inbox =
        [s \in DOMAIN @ |->
            IF s \in to /\ s \in ws.sockets
            THEN Append(@[s], [no |-> ws.emitted + 1, name |-> name, body |-> body])
            ELSE @[s]]]

\* the handler is done: its event is the last one handled
Handled(ws, event) == [ws EXCEPT !.emitted = @ + 1, !.event = event]

\* onSetup that emits to the channel of the user alone
onSetupToChannel(ws, s, userId) ==
    LET joined == Join(ws, s, userId)
        mapped == [joined EXCEPT !.onlineUsers[userId] = s, !.setups[s] = @ \cup {userId}]
    IN  Emit(mapped, InRoom(mapped, userId), "onlineUsers", mapped.onlineUsers)

\* socket.on('setup')
onSetup(ws, s, userId) ==
    LET joined == Join(ws, s, userId)
        mapped == [joined EXCEPT !.onlineUsers[userId] = s, !.setups[s] = @ \cup {userId}]
    IN  Emit(mapped, mapped.sockets, "onlineUsers", mapped.onlineUsers)

\* socket.on('joinChat')
onJoinChat(ws, s, chatId) == Join(ws, s, chatId)

\* list.forEach((user) => { if (user !== except) io.to(user).emit(name, body) })
RECURSIVE ForEachEmit(_, _, _, _, _)
ForEachEmit(ws, list, except, name, body) ==
    IF list = <<>> THEN ws
    ELSE LET user == Head(list)
             sent == IF user # except
                     THEN Emit(ws, InRoom(ws, user), name, body)
                     ELSE ws
         IN  ForEachEmit(sent, Tail(list), except, name, body)

\* socket.on('joinNewGroupChat'); chat._id of no chat is a TypeError (a chat
\* whose id is Undefined stands for a payload without chat)
onJoinNewGroupChat(ws, s, chat, userId) ==
    IF chat.id = Undefined THEN Throw(ws)
    ELSE ForEachEmit(Join(ws, s, chat.id), chat.users \o chat.groupAdmins, userId,
                     "joinGroupChat", chat)

\* onTyping without except(user._id)
onTypingToAll(ws, s, name, chatId, user) ==
    Emit(ws, InRoom(ws, chatId), name, [chatId |-> chatId, user |-> user])

\* socket.on('typing') and socket.on('typingOff'), which emit startTyping
\* and stopTyping: io.to(chatId).except(user._id).emit(name, { chatId, user })
\* user._id of no user is a TypeError
onTyping(ws, s, name, chatId, user) ==
    IF user = Undefined THEN Throw(ws)
    ELSE Emit(ws, InRoom(ws, chatId) \ InRoom(ws, user), name,
              [chatId |-> chatId, user |-> user])

\* onSendMessage over message.chat.users alone
onSendMessageToUsers(ws, s, message) ==
    ForEachEmit(ws, message.users, message.sender, "receiveMessage", message)

\* socket.on('sendMessage'); the spread of message.chat.users of no chat (a
\* message whose chat is Undefined stands for one without chat) is a
\* TypeError, and so is message.sender._id of no sender, which the first turn
\* of the loop reads before it emits
onSendMessage(ws, s, message) ==
    IF message.chat = Undefined THEN Throw(ws)
    ELSE IF message.sender = Undefined /\ message.users \o message.groupAdmins # <<>>
    THEN Throw(ws)
    ELSE ForEachEmit(ws, message.users \o message.groupAdmins, message.sender,
                     "receiveMessage", message)

\* onDisconnect that leaves the loop at the first key it deletes
onDisconnectFirstKey(ws, s) ==
    LET gone == [ws EXCEPT !.sockets = @ \ {s}, !.rooms[s] = {}, !.setups[s] = {}]
        keys == {k \in DOMAIN ws.onlineUsers : ws.onlineUsers[k] = s}
        first == IF keys = {} THEN {} ELSE {CHOOSE k \in keys : TRUE}
        deleted == [gone EXCEPT !.onlineUsers =
                       [k \in DOMAIN @ |-> IF k \in first THEN NoSocket ELSE @[k]]]
    IN  Emit(deleted, deleted.sockets, "onlineUsers", deleted.onlineUsers)

\* socket.on('disconnect'): by the time it runs the connection is gone and
\* has left its rooms
onDisconnect(ws, s) ==
    LET gone == [ws EXCEPT !.sockets = @ \ {s}, !.rooms[s] = {}, !.setups[s] = {}]
        deleted == [gone EXCEPT !.onlineUsers =
                       [k \in DOMAIN @ |-> IF @[k] = s THEN NoSocket ELSE @[k]]]
    IN  Emit(deleted, deleted.sockets, "onlineUsers", deleted.onlineUsers)

(* ------------------------------ requests ------------------------------- *)

\* the user lists the requests carry
UserLists == {<<"a1">>, <<"a1", "b2">>, <<"b2", "c3">>, <<"a1", "b2", "c3">>}

ChatNames == {"Team", "Crew"}

Contents == {"hello"}

NoRequest ==
    [op |-> "none", by |-> "", chatId |-> 0, userId |-> "", users |-> <<>>,
     messageId |-> 0, status |-> "", id |-> 0, found |-> <<>>, content |-> ""]

\* the handlers
ChatOps ==
    {"getOrCreateChat", "createGroupChat", "renameGroupChat", "addtoGroup",
     "updateGroupUsers", "updateAdminUsers", "removeFromGroup"}

MessageOps == {"sendMessage", "updateReadBy"}

\* the request a handler served and the response it gave; last keeps those of
\* the handlers under observation (track)
Served(track, op, by, chatId, userId, users, messageId, r) ==
    IF op \in track
    THEN [op |-> op, by |-> by, chatId |-> chatId, userId |-> userId, users |-> users,
          messageId |-> messageId, status |-> r.status, id |-> r.id, found |-> <<>>,
          content |-> ""]
    ELSE NoRequest

\* a slot of reqs that holds no request
Idle == [pc |-> "idle", by |-> "", userId |-> ""]

Init ==
    /\ chats = <<>>
    /\ messages = <<>>
    /\ last = NoRequest
    /\ reqs = [s \in 1 .. MaxInFlight |-> Idle]
    /\ updatedAt = <<>>
    /\ io = NoSockets

\* timestamps: true.  Chat.create and Chat.findByIdAndUpdate set updatedAt of
\* the chat to the time of the call; updatedAt holds the chats from the one
\* written longest ago to the one written last
Stamp(at, chatId) == Append(SelectSeq(at, LAMBDA c : c # chatId), chatId)

\* the store after a handler, within the bounds of the model; the order of
\* updatedAt is kept where the specification asks for it
Commit(o, r) ==
    /\ Len(r.chats) <= o.maxChats
    /\ Len(r.messages) <= o.maxMessages
    /\ chats' = r.chats
    /\ messages' = r.messages
    /\ updatedAt' = IF o.timestamps /\ r.touched # NoChat
                    THEN Stamp(updatedAt, r.touched)
                    ELSE updatedAt

GetOrCreateChat(o) ==
    \E by \in Users, userId \in o.userIds :
        LET r == getOrCreateChat(chats, messages, by, userId) IN
        /\ Commit(o, r)
        /\ last' = Served(o.track, "getOrCreateChat", by, 0, userId, <<>>, 0, r)
        /\ UNCHANGED <<reqs, io>>

CreateGroupChat(o) ==
    \E by \in Users, chatName \in o.chatNames, users \in o.userLists :
        LET r == createGroupChat(chats, messages, by, chatName, users) IN
        /\ Commit(o, r)
        /\ last' = Served(o.track, "createGroupChat", by, 0, "", users, 0, r)
        /\ UNCHANGED <<reqs, io>>

RenameGroupChat(o) ==
    \E by \in Users, chatId \in (1 .. o.maxChats) \cup o.badIds, chatName \in o.chatNames :
        LET r == renameGroupChat(chats, messages, by, chatId, chatName) IN
        /\ Commit(o, r)
        /\ last' = LET q == Served(o.track, "renameGroupChat", by, chatId, "", <<>>, 0, r)
                   IN  IF q.op = "renameGroupChat" THEN [q EXCEPT !.content = chatName] ELSE q
        /\ UNCHANGED <<reqs, io>>

AddtoGroup(o) ==
    \E by \in Users, chatId \in (1 .. o.maxChats) \cup o.badIds, userId \in o.userIds :
        LET r == addtoGroup(chats, messages, by, chatId, userId) IN
        /\ Commit(o, r)
        /\ last' = Served(o.track, "addtoGroup", by, chatId, userId, <<>>, 0, r)
        /\ UNCHANGED <<reqs, io>>

UpdateGroupUsers(o) ==
    \E by \in Users, chatId \in (1 .. o.maxChats) \cup o.badIds, users \in o.userLists :
        LET r == updateGroupUsers(chats, messages, by, chatId, users) IN
        /\ Commit(o, r)
        /\ last' = Served(o.track, "updateGroupUsers", by, chatId, "", users, 0, r)
        /\ UNCHANGED <<reqs, io>>

UpdateAdminUsers(o) ==
    \E by \in Users, chatId \in (1 .. o.maxChats) \cup o.badIds, users \in o.userLists :
        LET r == updateAdminUsers(chats, messages, by, chatId, users) IN
        /\ Commit(o, r)
        /\ last' = Served(o.track, "updateAdminUsers", by, chatId, "", users, 0, r)
        /\ UNCHANGED <<reqs, io>>

RemoveFromGroup(o) ==
    \E by \in Users, chatId \in (1 .. o.maxChats) \cup o.badIds, userId \in o.userIds :
        LET r == removeFromGroup(chats, messages, by, chatId, userId) IN
        /\ Commit(o, r)
        /\ last' = Served(o.track, "removeFromGroup", by, chatId, userId, <<>>, 0, r)
        /\ UNCHANGED <<reqs, io>>

SendMessage(o) ==
    \E by \in Users, chatId \in (1 .. o.maxChats) \cup o.badIds, content \in o.contents :
        LET r == sendMessage(chats, messages, by, chatId, content) IN
        /\ Commit(o, r)
        /\ last' = LET q == Served(o.track, "sendMessage", by, chatId, "", <<>>, 0, r)
                   IN  IF q.op = "sendMessage" THEN [q EXCEPT !.content = content] ELSE q
        /\ UNCHANGED <<reqs, io>>

UpdateReadBy(o) ==
    \E by \in Users, messageId \in (1 .. o.maxMessages) \cup o.badIds :
        LET r == updateReadBy(chats, messages, by, messageId) IN
        /\ Commit(o, r)
        /\ last' = Served(o.track, "updateReadBy", by, 0, "", <<>>, messageId, r)
        /\ UNCHANGED <<reqs, io>>

\* GET /chats reads and writes nothing
GetAllChats(o) ==
    \E by \in Users :
        /\ last' = IF "getAllChats" \in o.track
                   THEN [NoRequest EXCEPT
                            !.op = "getAllChats", !.by = by, !.status = "Success",
                            !.found = SortByUpdatedAt(DOMAIN getAllChats(chats, messages, by),
                                                      updatedAt)]
                   ELSE NoRequest
        /\ UNCHANGED <<chats, messages, reqs, updatedAt, io>>

\* GET /messages reads and writes nothing
GetAllMessages(o) ==
    \E by \in Users, chatId \in (1 .. o.maxChats) \cup o.badIds :
        LET r == getAllMessages(chats, messages, by, chatId) IN
        /\ last' = IF "getAllMessages" \in o.track
                   THEN [NoRequest EXCEPT !.op = "getAllMessages", !.by = by,
                                          !.chatId = chatId, !.status = r.status,
                                          !.found = r.messages]
                   ELSE NoRequest
        /\ UNCHANGED <<chats, messages, reqs, updatedAt, io>>

\* the handlers of /chats
ChatHandlers(o) ==
    \/ GetAllChats(o)
    \/ GetOrCreateChat(o)
    \/ CreateGroupChat(o)
    \/ RenameGroupChat(o)
    \/ AddtoGroup(o)
    \/ UpdateGroupUsers(o)
    \/ UpdateAdminUsers(o)
    \/ RemoveFromGroup(o)

\* the handlers of /messages
MessageHandlers(o) ==
    \/ GetAllMessages(o)
    \/ SendMessage(o)
    \/ UpdateReadBy(o)

Handlers(o) ==
    \/ ChatHandlers(o)
    \/ MessageHandlers(o)

\* what a specification draws its requests from: the handlers under
\* observation, the bounds of the store, and the values the requests carry
Scope(track, maxChats, maxMessages, chatNames, userLists) ==
    [track |-> track, maxChats |-> maxChats, maxMessages |-> maxMessages,
     userIds |-> Users, chatNames |-> chatNames, userLists |-> userLists,
     contents |-> Contents, timestamps |-> FALSE, badIds |-> {}]

\* every handler, none under observation
Next == Handlers(Scope({}, MaxChats, MaxMessages, {"Team"}, UserLists))

Spec == Init /\ [][Next]_vars

\* the handlers of /chats on one chat, each of them under observation
NextChat == ChatHandlers(Scope(ChatOps, ChatMaxChats, 0, {"Team"}, UserLists))

SpecChat == Init /\ [][NextChat]_vars

\* the handlers of /chats on several chats, getOrCreateChat under observation
NextDirect == ChatHandlers(Scope({"getOrCreateChat"}, DirectMaxChats, 0, {"Team"}, UserLists))

SpecDirect == Init /\ [][NextDirect]_vars

\* every handler on the messages of one chat, the handlers of /messages under
\* observation
NextRead ==
    Handlers(Scope(MessageOps, ReadMaxChats, ReadMaxMessages, {"Team"},
                   {<<"a1", "b2">>, <<"b2", "c3">>}))

SpecRead == Init /\ [][NextRead]_vars

\* the chats and the messages of SpecGroup
GroupMaxChats == 1

GroupMaxMessages == 1

\* every handler on one group that is renamed and receives a message,
\* removeFromGroup under observation
NextGroup ==
    Handlers(Scope({"removeFromGroup"}, GroupMaxChats, GroupMaxMessages,
                   {"Team", "Crew"}, UserLists))

SpecGroup == Init /\ [][NextGroup]_vars

\* the chats and the messages of SpecSend
SendMaxChats == 2

SendMaxMessages == 2

\* what the requests of SpecSend carry: two contents
SendScope ==
    [Scope({"sendMessage"}, SendMaxChats, SendMaxMessages, {"Team"}, {<<"b2", "c3">>})
        EXCEPT !.contents = {"hello", "bye"}]

\* the handlers of /chats and sendMessage on several chats, sendMessage under
\* observation
NextSend ==
    \/ ChatHandlers(SendScope)
    \/ SendMessage(SendScope)

SpecSend == Init /\ [][NextSend]_vars

\* the chats and the messages of SpecList
ListMaxChats == 2

ListMaxMessages == 2

\* every handler on the messages of several chats, getAllMessages under
\* observation
NextList ==
    Handlers(Scope({"getAllMessages"}, ListMaxChats, ListMaxMessages, {"Team"},
                   {<<"b2", "c3">>}))

SpecList == Init /\ [][NextList]_vars

\* the chats and the messages of SpecChats
ChatsMaxChats == 2

ChatsMaxMessages == 1

\* every handler on several chats with the order of their updatedAt,
\* getAllChats under observation
NextChats ==
    Handlers([Scope({"getAllChats"}, ChatsMaxChats, ChatsMaxMessages, {"Team"},
                    {<<"b2", "c3">>}) EXCEPT !.timestamps = TRUE])

SpecChats == Init /\ [][NextChats]_vars

\* the chats and the messages of SpecShape
ShapeMaxChats == 1

ShapeMaxMessages == 1

\* what the requests of SpecShape carry: ids of users that are registered,
\* unregistered or malformed, ids of chats and messages that are malformed,
\* and two names
ShapeScope ==
    [Scope(ChatOps \cup MessageOps \cup {"getAllMessages"}, ShapeMaxChats,
           ShapeMaxMessages, ChatNames, {<<"b2">>, <<"b2", Malformed>>})
        EXCEPT !.userIds = UserIdInputs, !.badIds = {MalformedId}]

\* every handler on one chat with requests of every shape, each handler that
\* takes an id under observation
NextShape == Handlers(ShapeScope)

SpecShape == Init /\ [][NextShape]_vars

(* --------------------------- socket events ----------------------------- *)

\* the messages a sendMessage event carries: its sender, its chat, and users
\* and groupAdmins of its chat
RelayedMessages ==
    {[sender |-> "a1", chat |-> "k1", users |-> <<"a1", "b2">>, groupAdmins |-> <<>>],
     [sender |-> "b2", chat |-> "k1", users |-> <<"b2">>, groupAdmins |-> <<"a1">>],
     [sender |-> "c3", chat |-> "k1", users |-> <<"a1", "b2">>, groupAdmins |-> <<"a1">>]}

\* the chats a joinNewGroupChat event carries
NewGroupChats ==
    {[id |-> "k1", users |-> <<"b2">>, groupAdmins |-> <<"a1">>]}

SocketMaxSockets == 2

SocketMaxEmits == 3

\* the payloads of well-formed events
Payloads ==
    [messages |-> RelayedMessages, chats |-> NewGroupChats, users |-> SocketUsers,
     rooms |-> ChatRooms]

Connection ==
    /\ io.connected < SocketMaxSockets
    /\ io' = onConnection(io)

\* an event of a connected client is handled; p holds the payloads the
\* clients send
SocketSetup(s) ==
    \E userId \in SocketUsers :
        /\ io.emitted < SocketMaxEmits
        /\ io' = Handled(onSetup(io, s, userId),
                         [NoEvent EXCEPT !.name = "setup", !.socket = s, !.userId = userId])

SocketJoinChat(s, p) ==
    \E chatId \in p.rooms :
        /\ chatId \notin io.rooms[s]
        /\ io' = [onJoinChat(io, s, chatId) EXCEPT
                     !.event = [NoEvent EXCEPT !.name = "joinChat", !.socket = s,
                                               !.chatId = chatId]]

SocketJoinNewGroupChat(s, p) ==
    \E chat \in p.chats, userId \in SocketUsers :
        /\ io.emitted < SocketMaxEmits
        /\ io' = Handled(onJoinNewGroupChat(io, s, chat, userId),
                         [NoEvent EXCEPT !.name = "joinNewGroupChat", !.socket = s,
                                         !.userId = userId,
                                         !.chatId = chat.id])

SocketTyping(s, p) ==
    \E chatId \in ChatRooms, user \in p.users :
        /\ io.emitted < SocketMaxEmits
        /\ io' = Handled(onTyping(io, s, "startTyping", chatId, user),
                         [NoEvent EXCEPT !.name = "typing", !.socket = s,
                                         !.userId = user, !.chatId = chatId])

SocketTypingOff(s, p) ==
    \E chatId \in ChatRooms, user \in p.users :
        /\ io.emitted < SocketMaxEmits
        /\ io' = Handled(onTyping(io, s, "stopTyping", chatId, user),
                         [NoEvent EXCEPT !.name = "typingOff", !.socket = s,
                                         !.userId = user, !.chatId = chatId])

SocketSendMessage(s, p) ==
    \E message \in p.messages :
        /\ io.emitted < SocketMaxEmits
        /\ io' = Handled(onSendMessage(io, s, message),
                         [NoEvent EXCEPT !.name = "sendMessage", !.socket = s,
                                         !.message = message])

SocketDisconnect(s) ==
    /\ io.emitted < SocketMaxEmits
    /\ io' = Handled(onDisconnect(io, s),
                     [NoEvent EXCEPT !.name = "disconnect", !.socket = s])

\* the events of the clients; they read and write nothing of the store.  An
\* error that left a listener is an uncaught exception of the process, which
\* handles nothing after it
SocketEventsOf(p) ==
    /\ ~io.thrown
    /\ \/ Connection
       \/ \E s \in io.sockets :
              \/ SocketSetup(s)
              \/ SocketJoinChat(s, p)
              \/ SocketJoinNewGroupChat(s, p)
              \/ SocketTyping(s, p)
              \/ SocketTypingOff(s, p)
              \/ SocketSendMessage(s, p)
              \/ SocketDisconnect(s)
    /\ UNCHANGED <<chats, messages, last, reqs, updatedAt>>

SocketEvents == SocketEventsOf(Payloads)

\* payloads that lack a field beside the well-formed ones: a message of no
\* chat, a message of no sender, no user, no chat
LoosePayloads ==
    [messages |-> RelayedMessages \cup
                  {[sender |-> "a1", chat |-> Undefined, users |-> <<>>,
                    groupAdmins |-> <<>>],
                   [sender |-> Undefined, chat |-> "k1", users |-> <<"a1", "b2">>,
                    groupAdmins |-> <<>>]},
     chats |-> NewGroupChats \cup
               {[id |-> Undefined, users |-> <<>>, groupAdmins |-> <<>>]},
     users |-> SocketUsers \cup {Undefined},
     rooms |-> ChatRooms]

\* joinChat takes the string the client sends, which may be the id of a user
OpenPayloads == [Payloads EXCEPT !.rooms = ChatRooms \cup SocketUsers]

\* the events of clients that join the rooms they like
NextChannel == SocketEventsOf(OpenPayloads)

SpecChannel == Init /\ [][NextChannel]_vars

\* the events of clients that send what they like
NextPayload == SocketEventsOf(LoosePayloads)

SpecPayload == Init /\ [][NextPayload]_vars

NextSocket == SocketEvents

SpecSocket == Init /\ [][NextSocket]_vars

\* the chats and the messages of SpecLive
LiveMaxChats == 1

LiveMaxMessages == 1

\* what the requests of SpecLive carry
LiveScope == Scope({}, LiveMaxChats, LiveMaxMessages, {"Team"}, {<<"b2">>})

\* the events of the clients beside requests that fill the store
NextLive ==
    \/ SocketEvents
    \/ GetOrCreateChat(LiveScope)
    \/ SendMessage(LiveScope)

SpecLive == Init /\ [][NextLive]_vars

(* ------------------- getOrCreateChat, await by await ------------------- *)
(* reqs holds the requests in flight.  A handler runs from one await to    *)
(* the next in one step; the database serves one call at a time.           *)

RaceMaxChats == 2

\* POST /chats arrives: the body is validated and User.findOne is issued
ReceiveGetOrCreateChat(s) ==
    \E by \in Users, userId \in Users :
        /\ reqs[s].pc = "idle"
        /\ reqs' = [reqs EXCEPT ![s] = [pc |-> "findUser", by |-> by, userId |-> userId]]
        /\ UNCHANGED <<chats, messages, last, updatedAt, io>>

Respond(s, status, id) ==
    /\ last' = [NoRequest EXCEPT !.op = "getOrCreateChat", !.by = reqs[s].by,
                                 !.userId = reqs[s].userId, !.status = status, !.id = id]
    /\ reqs' = [reqs EXCEPT ![s] = Idle]

\* User.findOne answers; the self check follows and Chat.find is issued
AwaitUserFindOne(s) ==
    /\ reqs[s].pc = "findUser"
    /\ UNCHANGED <<chats, messages, updatedAt, io>>
    /\ IF ~UserFindOne(reqs[s].userId) THEN Respond(s, "UserNotFound", NoChat)
       ELSE IF reqs[s].userId = reqs[s].by THEN Respond(s, "SelfChat", NoChat)
       ELSE /\ reqs' = [reqs EXCEPT ![s].pc = "findChat"]
            /\ UNCHANGED last

\* Chat.find answers: the first match is returned, or Chat.create is issued
AwaitChatFind(s) ==
    /\ reqs[s].pc = "findChat"
    /\ UNCHANGED <<chats, messages, updatedAt, io>>
    /\ LET chat == FindDirectChats(chats, reqs[s].by, reqs[s].userId) IN
       IF chat # {} THEN Respond(s, "Success", First(chat))
       ELSE /\ reqs' = [reqs EXCEPT ![s].pc = "create"]
            /\ UNCHANGED last

\* Chat.create answers: the new chat is stored and returned
AwaitChatCreate(s) ==
    /\ reqs[s].pc = "create"
    /\ Len(chats) < RaceMaxChats
    /\ chats' = Append(chats, NewDirectChat(reqs[s].by, reqs[s].userId))
    /\ Respond(s, "Success", Len(chats) + 1)
    /\ UNCHANGED <<messages, updatedAt, io>>

NextRace ==
    \E s \in 1 .. MaxInFlight :
        \/ ReceiveGetOrCreateChat(s)
        \/ AwaitUserFindOne(s)
        \/ AwaitChatFind(s)
        \/ AwaitChatCreate(s)

SpecRace == Init /\ [][NextRace]_vars

(* --------------------- addtoGroup, await by await ---------------------- *)

AddRaceMaxChats == 1

\* PUT /chats/group/add-member arrives: the body is validated and the lookup
\* of the group is issued
ReceiveAddtoGroup(s) ==
    \E by \in Users, chatId \in 1 .. AddRaceMaxChats, userId \in HexIds :
        /\ reqs[s].pc = "idle"
        /\ reqs' = [reqs EXCEPT ![s] = [pc |-> "findGroup", by |-> by,
                                        userId |-> userId, chatId |-> chatId]]
        /\ UNCHANGED <<chats, messages, last, updatedAt, io>>

RespondAdd(s, status, id) ==
    /\ last' = [NoRequest EXCEPT !.op = "addtoGroup", !.by = reqs[s].by,
                                 !.chatId = reqs[s].chatId, !.userId = reqs[s].userId,
                                 !.status = status, !.id = id]
    /\ reqs' = [reqs EXCEPT ![s] = Idle]

\* Chat.findOne of the group answers; User.findOne is issued
AwaitGroupFindOne(s) ==
    /\ reqs[s].pc = "findGroup"
    /\ UNCHANGED <<chats, messages, updatedAt, io>>
    /\ IF ~FindGroupChat(chats, reqs[s].chatId) THEN RespondAdd(s, "ChatNotFound", NoChat)
       ELSE /\ reqs' = [reqs EXCEPT ![s].pc = "findUser"]
            /\ UNCHANGED last

\* User.findOne answers; the lookup of the user on the chat is issued
AwaitAddUserFindOne(s) ==
    /\ reqs[s].pc = "findUser"
    /\ UNCHANGED <<chats, messages, updatedAt, io>>
    /\ IF ~UserFindOne(reqs[s].userId) THEN RespondAdd(s, "UserNotFound", NoChat)
       ELSE /\ reqs' = [reqs EXCEPT ![s].pc = "findOnChat"]
            /\ UNCHANGED last

\* the lookup of the user on the chat answers; findByIdAndUpdate is issued
AwaitUserExistOnChat(s) ==
    /\ reqs[s].pc = "findOnChat"
    /\ UNCHANGED <<chats, messages, updatedAt, io>>
    /\ IF UserExistOnChat(chats, reqs[s].chatId, reqs[s].userId)
       THEN RespondAdd(s, "AlreadyAdded", NoChat)
       ELSE /\ reqs' = [reqs EXCEPT ![s].pc = "push"]
            /\ UNCHANGED last

\* findByIdAndUpdate(chatId, { $push: { users: userId } }) answers
AwaitPushUser(s) ==
    /\ reqs[s].pc = "push"
    /\ chats' = [chats EXCEPT ![reqs[s].chatId].users = Push(@, reqs[s].userId)]
    /\ RespondAdd(s, "Success", reqs[s].chatId)
    /\ UNCHANGED <<messages, updatedAt, io>>

\* groups come into being by createGroupChat, whose only write is its last step
NextRaceAdd ==
    \/ CreateGroupChat(Scope({}, AddRaceMaxChats, 0, {"Team"}, {<<"b2">>, <<"b2", "c3">>}))
    \/ \E s \in 1 .. MaxInFlight :
            \/ ReceiveAddtoGroup(s)
            \/ AwaitGroupFindOne(s)
            \/ AwaitAddUserFindOne(s)
            \/ AwaitUserExistOnChat(s)
            \/ AwaitPushUser(s)

SpecRaceAdd == Init /\ [][NextRaceAdd]_vars

(* --------------------- sendMessage, await by await --------------------- *)

SendRaceMaxChats == 2

SendRaceMaxMessages == 2

\* what the requests beside the sendMessage requests carry
SendRaceScope ==
    Scope({}, SendRaceMaxChats, SendRaceMaxMessages, {"Team"}, {<<"b2", "c3">>})

\* POST /messages arrives: the body is validated and the lookup of the sender
\* on the chat is issued
ReceiveSendMessage(s) ==
    \E by \in {"b2", "c3"}, chatId \in 1 .. SendRaceMaxChats :
        /\ reqs[s].pc = "idle"
        /\ reqs' = [reqs EXCEPT ![s] = [pc |-> "findAttached", by |-> by, userId |-> "",
                                        chatId |-> chatId, created |-> NoMessage]]
        /\ UNCHANGED <<chats, messages, last, updatedAt, io>>

\* Chat.findOne({ _id: chatId, users has me }) answers; Message.create is
\* issued
AwaitSendFindOne(s) ==
    /\ reqs[s].pc = "findAttached"
    /\ reqs' = [reqs EXCEPT ![s] = IF UserAttached(chats, reqs[s].chatId, reqs[s].by)
                                   THEN [@ EXCEPT !.pc = "create"]
                                   ELSE Idle]
    /\ UNCHANGED <<chats, messages, last, updatedAt, io>>

\* Message.create answers with the new document; the update of latestMessage
\* is issued with its id
AwaitMessageCreate(s) ==
    /\ reqs[s].pc = "create"
    /\ Len(messages) < SendRaceMaxMessages
    /\ messages' = Append(messages, NewMessage(reqs[s].chatId, reqs[s].by, "hello"))
    /\ reqs' = [reqs EXCEPT ![s].pc = "updateLatest", ![s].created = Len(messages) + 1]
    /\ UNCHANGED <<chats, last, updatedAt, io>>

\* AwaitUpdateLatest that writes the id of the newest message of the store
AwaitUpdateNewest(s) ==
    /\ reqs[s].pc = "updateLatest"
    /\ chats' = [chats EXCEPT ![reqs[s].chatId].latestMessage = Len(messages)]
    /\ reqs' = [reqs EXCEPT ![s] = Idle]
    /\ UNCHANGED <<messages, last, updatedAt, io>>

\* Chat.findByIdAndUpdate(chatId, { latestMessage: createdMessage._id })
\* answers, and the response is sent
AwaitUpdateLatest(s) ==
    /\ reqs[s].pc = "updateLatest"
    /\ chats' = [chats EXCEPT ![reqs[s].chatId].latestMessage = reqs[s].created]
    /\ reqs' = [reqs EXCEPT ![s] = Idle]
    /\ UNCHANGED <<messages, last, updatedAt, io>>

\* sendMessage requests in flight beside the handlers that make a group and
\* take a member out of it, whose only write is their last step
NextRaceSend ==
    \/ CreateGroupChat(SendRaceScope)
    \/ RemoveFromGroup(SendRaceScope)
    \/ \E s \in 1 .. MaxInFlight :
            \/ ReceiveSendMessage(s)
            \/ AwaitSendFindOne(s)
            \/ AwaitMessageCreate(s)
            \/ AwaitUpdateLatest(s)

SpecRaceSend == Init /\ [][NextRaceSend]_vars

(* -------------------- updateReadBy, await by await --------------------- *)

ReadRaceMaxChats == 1

ReadRaceMaxMessages == 1

\* what the requests beside the updateReadBy requests carry
ReadRaceScope ==
    Scope({}, ReadRaceMaxChats, ReadRaceMaxMessages, {"Team"}, {<<"b2", "c3">>})

\* PUT /messages/readBy arrives: the body is validated and the lookup of the
\* message is issued
ReceiveUpdateReadBy(s) ==
    \E by \in Users, messageId \in 1 .. ReadRaceMaxMessages :
        /\ reqs[s].pc = "idle"
        /\ reqs' = [reqs EXCEPT ![s] = [pc |-> "findMessage", by |-> by, userId |-> "",
                                        messageId |-> messageId, chatId |-> NoChat]]
        /\ UNCHANGED <<chats, messages, last, updatedAt, io>>

\* Message.findOne answers with the message the reader has not read; the
\* lookup of the reader on the chat of the message is issued
AwaitMessageFindOne(s) ==
    /\ reqs[s].pc = "findMessage"
    /\ reqs' = [reqs EXCEPT ![s] =
                   IF strictQuery /\ MessageExist(messages, reqs[s].messageId, reqs[s].by)
                   THEN [@ EXCEPT !.pc = "findReader",
                                  !.chatId = messages[reqs[s].messageId].chat]
                   ELSE Idle]
    /\ UNCHANGED <<chats, messages, last, updatedAt, io>>

\* Chat.findOne({ _id: message.chat, users has me }) answers; the update of
\* the message is issued
AwaitReaderFindOne(s) ==
    /\ reqs[s].pc = "findReader"
    /\ reqs' = [reqs EXCEPT ![s] = IF UserAttached(chats, reqs[s].chatId, reqs[s].by)
                                   THEN [@ EXCEPT !.pc = "pushReader"]
                                   ELSE Idle]
    /\ UNCHANGED <<chats, messages, last, updatedAt, io>>

\* Message.findByIdAndUpdate(_id, { $push: { readBy: me } }) answers, and the
\* response is sent
AwaitPushReader(s) ==
    /\ reqs[s].pc = "pushReader"
    /\ messages' = [messages EXCEPT ![reqs[s].messageId].readBy = Push(@, reqs[s].by)]
    /\ reqs' = [reqs EXCEPT ![s] = Idle]
    /\ UNCHANGED <<chats, last, updatedAt, io>>

\* updateReadBy requests in flight beside the handlers that make a chat and
\* send a message to it
NextRaceRead ==
    \/ GetOrCreateChat(ReadRaceScope)
    \/ SendMessage(ReadRaceScope)
    \/ \E s \in 1 .. MaxInFlight :
            \/ ReceiveUpdateReadBy(s)
            \/ AwaitMessageFindOne(s)
            \/ AwaitReaderFindOne(s)
            \/ AwaitPushReader(s)

SpecRaceRead == Init /\ [][NextRaceRead]_vars

(* ------------------------------- claims -------------------------------- *)

DirectChats == {c \in DOMAIN chats : ~chats[c].isGroupChat}

GroupChats == {c \in DOMAIN chats : chats[c].isGroupChat}

\* C1: at most one non-group chat exists for an unordered pair of users, also
\* when two getOrCreateChat requests for the pair interleave their find and
\* create steps.  The handler finds, then creates, and the schema holds no
\* unique index: two requests that both find nothing both create.
C1_OneDirectChatPerPair ==
    \A c, d \in DirectChats :
        Elems(chats[c].users) = Elems(chats[d].users) => c = d

\* C2: getOrCreateChat called twice in a row for a pair, by either side,
\* returns the same chat both times and the second call creates nothing; what
\* it returns is a non-group chat of exactly the two users, never a group chat
\* that lists both.
C2_Returned ==
    (last.op = "getOrCreateChat" /\ last.status = "Success") =>
        /\ last.id \in DirectChats
        /\ Elems(chats[last.id].users) = {last.by, last.userId}

C2_Twice ==
    ( /\ last.op = "getOrCreateChat" /\ last.status = "Success"
      /\ last'.op = "getOrCreateChat" /\ last'.status = "Success"
      /\ {last'.by, last'.userId} = {last.by, last.userId} ) =>
        (last'.id = last.id /\ chats' = chats)

C2_GetOrCreateTwice == []C2_Returned /\ [][C2_Twice]_vars

\* the second call found chat 1 although the group chat 2 lists both users
C2_Witness ==
    /\ last.op = "getOrCreateChat" /\ last.status = "Success" /\ last.id = 1
    /\ Len(chats) = 2 /\ chats[2].isGroupChat
    /\ {last.by, last.userId} \subseteq Elems(chats[2].users)

\* C3: every non-group chat has exactly 2 distinct users and no admins, and
\* no handler changes the users or the admins of a non-group chat.
C3_DirectShape ==
    \A c \in DirectChats :
        /\ Length(chats[c].users) = 2
        /\ Cardinality(Elems(chats[c].users)) = 2
        /\ chats[c].groupAdmins = EmptyBag

C3_DirectFrame ==
    \A c \in DirectChats :
        /\ c \in DOMAIN chats'
        /\ ~chats'[c].isGroupChat
        /\ chats'[c].users = chats[c].users
        /\ chats'[c].groupAdmins = chats[c].groupAdmins

C3_DirectChatFixed == []C3_DirectShape /\ [][C3_DirectFrame]_vars

\* a non-group chat that received a message, beside a group chat whose
\* members were rewritten
C3_Witness ==
    \E c \in DirectChats, g \in GroupChats :
        /\ chats[c].latestMessage # NoMessage
        /\ Elems(chats[g].groupAdmins) \subseteq Elems(chats[g].users)

\* C4: the groupAdmins of a group chat is never empty.
C4_AdminsNeverEmpty ==
    \A c \in GroupChats : Length(chats[c].groupAdmins) >= 1

\* PUT /chats/group/admins was served with a list that leaves the admin out,
\* and the admin is still the admin
C4_Witness ==
    /\ last.op = "updateAdminUsers" /\ last.status = "Success"
    /\ \A i \in DOMAIN last.users : last.users[i] # last.by
    /\ ElemMatch(chats[last.chatId].groupAdmins, last.by)

\* C5: removeFromGroup by the only admin of a group naming themself is turned
\* down with the sole-admin error and leaves the chats as they are, whether or
\* not the admin is in users.
C5_SoleAdminStep ==
    ( /\ last'.op = "removeFromGroup"
      /\ last'.userId = last'.by
      /\ last'.chatId \in GroupChats
      /\ Length(chats[last'.chatId].groupAdmins) = 1
      /\ ElemMatch(chats[last'.chatId].groupAdmins, last'.by) ) =>
        (last'.status = "SoleAdmin" /\ chats' = chats)

C5_SoleAdminCannotLeave == [][C5_SoleAdminStep]_vars

\* the only admin, who is not in users, was turned down with the sole-admin error
C5_Witness ==
    /\ last.op = "removeFromGroup" /\ last.status = "SoleAdmin"
    /\ last.userId = last.by
    /\ ~ElemMatch(chats[last.chatId].users, last.by)

C7_FirstCall ==
    ( /\ last'.op = "updateReadBy"
      /\ last'.messageId \in DOMAIN messages
      /\ UserAttached(chats, messages[last'.messageId].chat, last'.by)
      /\ last'.by # messages[last'.messageId].sender
      /\ ~ElemMatch(messages[last'.messageId].readBy, last'.by) ) =>
        /\ last'.status = "Success"
        /\ messages' = [messages EXCEPT ![last'.messageId].readBy = Push(@, last'.by)]

C7_SecondCall ==
    ( /\ last.op = "updateReadBy" /\ last.status = "Success"
      /\ last'.op = "updateReadBy"
      /\ last'.by = last.by /\ last'.messageId = last.messageId ) =>
        (last'.status = "InvalidMessage" /\ messages' = messages)

C8_Unread(u, c) ==
    Len(SelectSeq(messages, LAMBDA m : /\ m.chat = c
                                       /\ m.sender # u
                                       /\ CopiesIn(u, m.readBy) = 0))

C8_Count ==
    \A u \in Users : \A c \in MatchedChats(chats, u) :
        getAllChats(chats, messages, u)[c] = C8_Unread(u, c)

C8_Send ==
    (last'.op = "sendMessage" /\ last'.status = "Success") =>
        \A u \in Users \ {last'.by} :
            last'.chatId \in MatchedChats(chats, u) =>
                getAllChats(chats', messages', u)[last'.chatId]
                    = getAllChats(chats, messages, u)[last'.chatId] + 1

C8_Read ==
    ( /\ last'.op = "updateReadBy" /\ last'.status = "Success"
      /\ last'.by # messages[last'.messageId].sender ) =>
        LET c == messages[last'.messageId].chat IN
        getAllChats(chats', messages', last'.by)[c]
            = getAllChats(chats, messages, last'.by)[c] - 1

C9_CreatorIsMember ==
    (last.op = "createGroupChat" /\ last.status = "Success") =>
        /\ chats[last.id].isGroupChat
        /\ chats[last.id].groupAdmins = Array(<<last.by>>)
        /\ ElemMatch(chats[last.id].users, last.by)
        /\ \A i \in DOMAIN last.users : ElemMatch(chats[last.id].users, last.users[i])

\* C10 as claimed: a requester who is no admin is turned down for any target
\* but themself; an admin removes any current member; a member who is no
\* admin removes themself.
C10_Removed(c, userId) ==
    /\ last'.status = "Success"
    /\ chats' = [chats EXCEPT ![c].users = Pull(@, userId)]

C10_Step(soleAdminLeaves) ==
    LET c == last'.chatId
        by == last'.by
        userId == last'.userId
    IN  (last'.op = "removeFromGroup" /\ c \in GroupChats) =>
        LET admin == ElemMatch(chats[c].groupAdmins, by)
            sole == admin /\ userId = by /\ Length(chats[c].groupAdmins) = 1
        IN  /\ (~admin /\ userId # by) =>
                (last'.status = "NotAdmin" /\ chats' = chats)
            /\ (admin /\ ElemMatch(chats[c].users, userId) /\ (soleAdminLeaves \/ ~sole)) =>
                C10_Removed(c, userId)
            /\ (~admin /\ userId = by /\ ElemMatch(chats[c].users, by)) =>
                C10_Removed(c, userId)
            /\ (sole /\ ~soleAdminLeaves) =>
                (last'.status = "SoleAdmin" /\ chats' = chats)

C10_AsClaimed == [][C10_Step(TRUE)]_vars

\* C10 as amended: an admin removes any current member but themself while
\* they are the only admin, which is turned down with the sole-admin error.
C10_RemoveAuthorization == [][C10_Step(FALSE)]_vars

\* an admin removed another user from users
C10_Witness ==
    /\ last.op = "removeFromGroup" /\ last.status = "Success"
    /\ last.userId # last.by
    /\ ElemMatch(chats[last.chatId].groupAdmins, last.by)

\* C11 as claimed: a successful removeFromGroup takes the user out of users
\* and leaves groupAdmins, chatName, isGroupChat and latestMessage as they
\* are; a removeFromGroup whose target is not in users is turned down with
\* the 404 of the member lookup and changes nothing.
C11_Step(lookupFirst) ==
    LET c == last'.chatId
        by == last'.by
        userId == last'.userId
    IN  (last'.op = "removeFromGroup" /\ c \in GroupChats) =>
        LET admin == ElemMatch(chats[c].groupAdmins, by)
            sole == admin /\ userId = by /\ Length(chats[c].groupAdmins) = 1
        IN  /\ last'.status = "Success" =>
                /\ ElemMatch(chats[c].users, userId)
                /\ Elems(chats'[c].users) = Elems(chats[c].users) \ {userId}
                /\ \A u \in Users \ {userId} :
                       CopiesIn(u, chats'[c].users) = CopiesIn(u, chats[c].users)
                /\ chats'[c].groupAdmins = chats[c].groupAdmins
                /\ chats'[c].chatName = chats[c].chatName
                /\ chats'[c].isGroupChat = chats[c].isGroupChat
                /\ chats'[c].latestMessage = chats[c].latestMessage
                /\ Len(chats') = Len(chats)
                /\ messages' = messages
            /\ ~ElemMatch(chats[c].users, userId) =>
                /\ chats' = chats
                /\ messages' = messages
                /\ last'.status =
                       IF lookupFirst THEN "NotOnChat"
                       ELSE IF ~admin /\ userId # by THEN "NotAdmin"
                       ELSE IF sole THEN "SoleAdmin"
                       ELSE "NotOnChat"

C11_AsClaimed == [][C11_Step(TRUE)]_vars

\* C11 as amended: a removeFromGroup whose target is not in users changes
\* nothing and is turned down with the error of the first check it fails:
\* the admin check, the sole-admin check, then the 404 of the member lookup.
C11_RemoveFrame == [][C11_Step(FALSE)]_vars

\* a member was removed from a renamed group that had received a message
C11_Witness ==
    /\ last.op = "removeFromGroup" /\ last.status = "Success"
    /\ chats[last.chatId].chatName = "Crew"
    /\ chats[last.chatId].latestMessage # NoMessage
    /\ ~ElemMatch(chats[last.chatId].users, last.userId)

\* C12: a served updateAdminUsers leaves groupAdmins equal to the list it
\* was given and users as it was; a served updateGroupUsers leaves users
\* equal to its list and groupAdmins as it was.  updateAdminUsers writes its
\* list to users, the path updateGroupUsers writes, and never to groupAdmins.
C12_Step ==
    LET c == last'.chatId IN
    /\ (last'.op = "updateAdminUsers" /\ last'.status = "Success") =>
            /\ chats'[c].groupAdmins = Array(last'.users)
            /\ chats'[c].users = chats[c].users
    /\ (last'.op = "updateGroupUsers" /\ last'.status = "Success") =>
            /\ chats'[c].users = Array(last'.users)
            /\ chats'[c].groupAdmins = chats[c].groupAdmins

C12_ReplaceSets == [][C12_Step]_vars

\* C13: updateGroupUsers and updateAdminUsers are served only for a requester
\* who is in groupAdmins of the chat; for any other requester, a member in
\* users included, they are turned down and the chats stay as they are.
C13_Step ==
    LET c == last'.chatId IN
    (last'.op \in {"updateGroupUsers", "updateAdminUsers"} /\ c \in GroupChats) =>
        IF ElemMatch(chats[c].groupAdmins, last'.by)
        THEN last'.status = "Success"
        ELSE last'.status = "NotAdmin" /\ chats' = chats

C13_AdminsOnlyReplace == [][C13_Step]_vars

\* a member who is no admin was turned down
C13_Witness ==
    /\ last.op \in {"updateGroupUsers", "updateAdminUsers"}
    /\ last.status = "NotAdmin"
    /\ ElemMatch(chats[last.chatId].users, last.by)
    /\ ~ElemMatch(chats[last.chatId].groupAdmins, last.by)

\* C14: addtoGroup on a group chat is turned down, the chats unchanged, when
\* the user is already in users or in groupAdmins; otherwise it pushes the
\* user to users and changes nothing else, whoever the requester is.
C14_Step ==
    LET c == last'.chatId
        userId == last'.userId
    IN  (last'.op = "addtoGroup" /\ c \in GroupChats) =>
        IF ElemMatch(chats[c].users, userId) \/ ElemMatch(chats[c].groupAdmins, userId)
        THEN last'.status = "AlreadyAdded" /\ chats' = chats /\ messages' = messages
        ELSE /\ last'.status = "Success"
             /\ chats'[c].users = chats[c].users (+) SetToBag({userId})
             /\ chats' = [chats EXCEPT ![c].users = chats'[c].users]
             /\ messages' = messages

C14_AddMember == [][C14_Step]_vars

\* a requester who is neither an admin nor a member of the group added a user
C14_Witness ==
    /\ last.op = "addtoGroup" /\ last.status = "Success"
    /\ last.by # last.userId
    /\ ~ElemMatch(chats[last.chatId].users, last.by)
    /\ ~ElemMatch(chats[last.chatId].groupAdmins, last.by)
    /\ ElemMatch(chats[last.chatId].users, last.userId)

\* C15: no user id occurs more than once in users of a chat, also when two
\* addtoGroup requests for the same chat and user interleave their lookup and
\* their push.  The lookup and the $push are two calls and $push adds the id
\* whether or not it is there: two requests that both look up first both push.
C15_UniqueMembers ==
    \A c \in DOMAIN chats : \A u \in Users : CopiesIn(u, chats[c].users) <= 1

\* C16: sendMessage is served only for a sender who is in users of the chat;
\* any other sender, an admin who is not in users included, is turned down,
\* no message is created and latestMessage of the chat stays as it is.
C16_Step ==
    LET c == last'.chatId IN
    (last'.op = "sendMessage" /\ c \in DOMAIN chats) =>
        /\ last'.status = "Success" => ElemMatch(chats[c].users, last'.by)
        /\ ~ElemMatch(chats[c].users, last'.by) =>
               /\ last'.status = "NotAttached"
               /\ messages' = messages
               /\ chats'[c].latestMessage = chats[c].latestMessage
               /\ chats' = chats

C16_MembersOnlySend == [][C16_Step]_vars

\* an admin who is not in users was turned down on a chat that holds a message
C16_Witness ==
    /\ last.op = "sendMessage" /\ last.status = "NotAttached"
    /\ last.chatId \in DOMAIN chats
    /\ ElemMatch(chats[last.chatId].groupAdmins, last.by)
    /\ ~ElemMatch(chats[last.chatId].users, last.by)
    /\ chats[last.chatId].latestMessage # NoMessage

\* C17: a served sendMessage creates one message of the given chat, sender
\* and content with an empty readBy and sets latestMessage of that chat to
\* it; users, groupAdmins, chatName and isGroupChat of the chat, every other
\* chat and every other message stay as they are.
C17_Step ==
    LET c == last'.chatId IN
    (last'.op = "sendMessage" /\ last'.status = "Success") =>
        /\ Len(messages') = Len(messages) + 1
        /\ \A m \in DOMAIN messages : messages'[m] = messages[m]
        /\ last'.id = Len(messages')
        /\ messages'[last'.id].chat = c
        /\ messages'[last'.id].sender = last'.by
        /\ messages'[last'.id].content = last'.content
        /\ messages'[last'.id].readBy = EmptyBag
        /\ DOMAIN chats' = DOMAIN chats
        /\ \A d \in DOMAIN chats \ {c} : chats'[d] = chats[d]
        /\ chats'[c].latestMessage = last'.id
        /\ chats'[c].users = chats[c].users
        /\ chats'[c].groupAdmins = chats[c].groupAdmins
        /\ chats'[c].chatName = chats[c].chatName
        /\ chats'[c].isGroupChat = chats[c].isGroupChat

C17_SendFrame == [][C17_Step]_vars

\* a second message was sent, to another chat than the first and with another
\* content
C17_Witness ==
    /\ last.op = "sendMessage" /\ last.status = "Success" /\ last.id = 2
    /\ messages[1].chat # last.chatId
    /\ messages[1].content # last.content
    /\ chats[messages[1].chat].latestMessage = 1
    /\ chats[last.chatId].latestMessage = 2

\* C18: updateReadBy by a reader who is not in users of the chat of the
\* message is turned down and leaves readBy as it is; so whoever is pushed to
\* readBy is, at that moment, in users of the chat.
C18_Step ==
    LET m == last'.messageId IN
    (last'.op = "updateReadBy" /\ m \in DOMAIN messages) =>
        /\ ~ElemMatch(chats[messages[m].chat].users, last'.by) =>
               /\ last'.status \in {"InvalidMessage", "NotAttached"}
               /\ messages' = messages
        /\ messages'[m].readBy # messages[m].readBy =>
               /\ last'.status = "Success"
               /\ ElemMatch(chats[messages[m].chat].users, last'.by)
               /\ messages'[m].readBy = messages[m].readBy (+) SetToBag({last'.by})

C18_MembersOnlyRead == [][C18_Step]_vars

\* an admin of the group who is not in users, and had not read the message,
\* was turned down
C18_Witness ==
    /\ last.op = "updateReadBy" /\ last.status = "NotAttached"
    /\ last.messageId \in DOMAIN messages
    /\ ElemMatch(chats[messages[last.messageId].chat].groupAdmins, last.by)
    /\ ~ElemMatch(messages[last.messageId].readBy, last.by)

\* C19: a message once created is never deleted, its chat, sender and content
\* never change, and its readBy only grows.
C19_Step ==
    \A m \in DOMAIN messages :
        /\ m \in DOMAIN messages'
        /\ messages'[m].chat = messages[m].chat
        /\ messages'[m].sender = messages[m].sender
        /\ messages'[m].content = messages[m].content
        /\ messages[m].readBy \sqsubseteq messages'[m].readBy

C19_MessagesOnlyGrow == [][C19_Step]_vars

\* a message that two users have read, one of whom has left the chat since
C19_Witness ==
    \E m \in DOMAIN messages :
        /\ Length(messages[m].readBy) = 2
        /\ \E u \in Elems(messages[m].readBy) :
               ~ElemMatch(chats[messages[m].chat].users, u)

C21_Position(c) == CHOOSE i \in DOMAIN updatedAt : updatedAt[i] = c

C21_Listed ==
    LET found == last.found IN
    last.op = "getAllChats" =>
        /\ {found[i] : i \in DOMAIN found} =
               {c \in DOMAIN chats : \/ last.by \in Elems(chats[c].users)
                                     \/ last.by \in Elems(chats[c].groupAdmins)}
        /\ \A i, j \in DOMAIN found :
               i < j => C21_Position(found[i]) > C21_Position(found[j])

C21_Written ==
    \A c \in DOMAIN chats' :
        (c \notin DOMAIN chats \/ chats'[c] # chats[c]) =>
            \A u \in Users :
                c \in MatchedChats(chats', u) =>
                    Head(SortByUpdatedAt(DOMAIN getAllChats(chats', messages', u),
                                         updatedAt')) = c

C21_ListChats == []C21_Listed /\ [][C21_Written]_vars

\* the chat created first is listed first, for it received a message since
C21_Witness ==
    /\ last.op = "getAllChats"
    /\ last.found = <<1, 2>>
    /\ chats[1].latestMessage # NoMessage

\* the step handles the socket event of that name
SocketEventNow(name) == io'.emitted = io.emitted + 1 /\ io'.event.name = name

\* what the step sends to a connection
SentNow(t) == SubSeq(io'.inbox[t], Len(io.inbox[t]) + 1, Len(io'.inbox[t]))

\* what the last event handled sent to a connection
SentLast(t) == SelectSeq(io.inbox[t], LAMBDA e : e.no = io.emitted)

\* C22: on a sendMessage event receiveMessage goes to the channel of every id
\* in users and in groupAdmins of the chat of the message but the sender, and
\* not to the channel of the sender: a connection is sent the message if and
\* only if it is in the channel of one of these ids.
C22_Step ==
    SocketEventNow("sendMessage") =>
        LET message == io'.event.message
            listed == {message.users[i] : i \in DOMAIN message.users}
                        \cup {message.groupAdmins[i] : i \in DOMAIN message.groupAdmins}
            channels == listed \ {message.sender}
        IN  \A t \in io.sockets :
                /\ SentNow(t) # <<>> <=> io.rooms[t] \cap channels # {}
                /\ \A i \in DOMAIN SentNow(t) :
                       /\ SentNow(t)[i].name = "receiveMessage"
                       /\ SentNow(t)[i].body = message

C22_RelayMessage == [][C22_Step]_vars

\* the connection of an admin who is not in users was sent the message, the
\* connection of the sender was not
C22_Witness ==
    /\ io.event.name = "sendMessage"
    /\ io.event.message.sender = "b2"
    /\ \E t \in io.sockets : io.rooms[t] = {"a1"} /\ SentLast(t) # <<>>
    /\ \E t \in io.sockets : io.rooms[t] = {"b2"} /\ SentLast(t) = <<>>

\* C23: on a setup event the connection is joined to the channel of the user
\* id, the presence map maps the user id to the id of the connection, and
\* every connected client, one that never sent setup included, is sent
\* onlineUsers with the whole presence map.
C23_Step ==
    SocketEventNow("setup") =>
        LET s == io'.event.socket
            userId == io'.event.userId
        IN  /\ io'.rooms[s] = io.rooms[s] \cup {userId}
            /\ io'.onlineUsers = [io.onlineUsers EXCEPT ![userId] = s]
            /\ \A t \in io.sockets :
                   SentNow(t) = <<[no |-> io'.emitted, name |-> "onlineUsers",
                                   body |-> io'.onlineUsers]>>

C23_Setup == [][C23_Step]_vars

\* a connection that never sent setup was sent the presence map
C23_Witness ==
    /\ io.event.name = "setup"
    /\ \E t \in io.sockets \ {io.event.socket} :
           /\ io.rooms[t] = {}
           /\ SentLast(t) # <<>>
           /\ SentLast(t)[1].body[io.event.userId] = io.event.socket

\* C24: after the disconnect of a connection no entry of the presence map
\* holds its id, the entries of the other connections are as they were, and
\* the clients that remain are sent the presence map as it is now.
C24_Step ==
    SocketEventNow("disconnect") =>
        LET s == io'.event.socket IN
        /\ \A k \in DOMAIN io'.onlineUsers :
               /\ io'.onlineUsers[k] # s
               /\ io.onlineUsers[k] # s => io'.onlineUsers[k] = io.onlineUsers[k]
        /\ io'.sockets = io.sockets \ {s}
        /\ \A t \in io'.sockets :
               SentNow(t) = <<[no |-> io'.emitted, name |-> "onlineUsers",
                               body |-> io'.onlineUsers]>>

C24_Disconnect == [][C24_Step]_vars

\* a connection that had sent setup for two user ids is gone, and the client
\* that remains was sent a presence map without them
C24_Witness ==
    /\ io.event.name = "disconnect"
    /\ \A k \in DOMAIN io.onlineUsers : io.onlineUsers[k] = NoSocket
    /\ \E t \in io.sockets :
           /\ SentLast(t) # <<>>
           /\ Len(io.inbox[t]) = 3
           /\ \A k \in SocketUsers : io.inbox[t][2].body[k] = io.event.socket

\* C25: a typing (typingOff) event for a chat id from a user sends
\* startTyping (stopTyping) to every connection that has joined the channel
\* of the chat id but those in the channel of that user, and to no other.
C25_Step ==
    \A name \in {"typing", "typingOff"} :
        SocketEventNow(name) =>
            LET chatId == io'.event.chatId
                user == io'.event.userId
                sent == [no |-> io'.emitted,
                         name |-> IF name = "typing" THEN "startTyping" ELSE "stopTyping",
                         body |-> [chatId |-> chatId, user |-> user]]
            IN  \A t \in io.sockets :
                    SentNow(t) = IF chatId \in io.rooms[t] /\ user \notin io.rooms[t]
                                 THEN <<sent>>
                                 ELSE <<>>

C25_Typing == [][C25_Step]_vars

\* of two connections in the channel of the chat, the one that is in the
\* channel of the typing user was sent nothing, the other was sent startTyping
C25_Witness ==
    /\ io.event.name = "typing"
    /\ \E t \in io.sockets :
           /\ {io.event.chatId, io.event.userId} \subseteq io.rooms[t]
           /\ SentLast(t) = <<>>
    /\ \E t \in io.sockets :
           /\ io.event.chatId \in io.rooms[t]
           /\ io.event.userId \notin io.rooms[t]
           /\ SentLast(t) # <<>>

\* C26: nothing is queued and nothing is sent again: a step sends a
\* connection the event handled in that step or nothing, only if the
\* connection is there before and after the step and, for a relayed event,
\* has joined a channel before it; a new connection starts with nothing
\* sent to it; and the events of the clients leave chats and messages alone.
C26_Step ==
    /\ io' # io => chats' = chats /\ messages' = messages
    /\ \A t \in DOMAIN io'.inbox :
           IF t \in DOMAIN io.inbox
           THEN /\ SubSeq(io'.inbox[t], 1, Len(io.inbox[t])) = io.inbox[t]
                /\ SentNow(t) # <<>> =>
                       /\ t \in io.sockets /\ t \in io'.sockets
                       /\ \A i \in DOMAIN SentNow(t) : SentNow(t)[i].no = io.emitted + 1
                       /\ SentNow(t)[1].name # "onlineUsers" => io.rooms[t] # {}
           ELSE io'.inbox[t] = <<>>

C26_NoQueue == [][C26_Step]_vars

\* a message listing b2 was relayed when only a connection of a1 was there;
\* a connection that joined the channel of b2 later was never sent it, and
\* the store holds a chat and a message
C26_Witness ==
    /\ chats # <<>> /\ messages # <<>>
    /\ \E x, t \in io.sockets :
           /\ io.rooms[x] = {"a1"}
           /\ io.rooms[t] = {"b2"}
           /\ \E i \in DOMAIN io.inbox[x] :
                  LET e == io.inbox[x][i] IN
                  /\ e.name = "receiveMessage"
                  /\ e.body.sender = "c3"
                  /\ \E j \in DOMAIN e.body.users : e.body.users[j] = "b2"
                  /\ io.inbox[t] # <<>>
                  /\ \A k \in DOMAIN io.inbox[t] : io.inbox[t][k].no > e.no

\* C27: in every handler of /chats and /messages an id that is no 24-digit
\* hexadecimal string is answered with the validation error, whatever a
\* lookup or a check of authority would have found, and the store stays as
\* it is.
C27_Step ==
    LET q == last' IN
    (/\ q.op # "none"
     /\ \/ q.chatId = MalformedId
        \/ q.messageId = MalformedId
        \/ q.userId = Malformed
        \/ \E i \in DOMAIN q.users : q.users[i] = Malformed)
    => /\ q.status = "Invalid"
       /\ chats' = chats
       /\ messages' = messages

C27_ShapeFirst == [][C27_Step]_vars

\* removeFromGroup with a malformed chatId and the id of no user, on a store
\* that holds a group: the answer is the validation error, not a not-found
C27_Witness ==
    /\ last.op = "removeFromGroup"
    /\ last.chatId = MalformedId
    /\ last.userId = Ghost
    /\ last.status = "Invalid"
    /\ \E c \in DOMAIN chats : chats[c].isGroupChat

\* C28: getOrCreateChat fails and creates no chat when userId is the id of no
\* registered user or the id of the requester; so no chat that is not a group
\* holds the same user twice.
C28_Step ==
    LET q == last' IN
    (/\ q.op = "getOrCreateChat"
     /\ ~UserFindOne(q.userId) \/ q.userId = q.by)
    => /\ q.status \in {"Invalid", "UserNotFound", "SelfChat"}
       /\ chats' = chats
       /\ messages' = messages

C28_TwoUsers ==
    \A c \in DOMAIN chats :
        ~chats[c].isGroupChat => Cardinality(Elems(chats[c].users)) = 2

C28_NoSelfChat == [][C28_Step]_vars /\ []C28_TwoUsers

\* a request of a user for a chat with themself was refused on an empty store
C28_Witness ==
    /\ last.op = "getOrCreateChat"
    /\ last.userId = last.by
    /\ last.status = "SelfChat"
    /\ chats = <<>>

\* C29: renameGroupChat on a well-formed id that is not the id of a group
\* answers not-found and changes nothing; on a group it succeeds whoever
\* asks and changes chatName of that chat and nothing else.
C29_Step ==
    LET q == last' IN
    (q.op = "renameGroupChat" /\ WellFormedId(q.chatId)) =>
        IF q.chatId \in DOMAIN chats /\ chats[q.chatId].isGroupChat
        THEN /\ q.status = "Success"
             /\ chats' = [chats EXCEPT ![q.chatId].chatName = q.content]
             /\ messages' = messages
        ELSE /\ q.status = "ChatNotFound"
             /\ chats' = chats
             /\ messages' = messages

C29_Rename == [][C29_Step]_vars

\* a user who is neither member nor admin renamed a group that has a
\* latestMessage
C29_Witness ==
    /\ last.op = "renameGroupChat"
    /\ last.status = "Success"
    /\ last.content = "Crew"
    /\ LET chat == chats[last.chatId] IN
       /\ chat.chatName = "Crew"
       /\ ~ElemMatch(chat.users, last.by)
       /\ ~ElemMatch(chat.groupAdmins, last.by)
       /\ chat.latestMessage # NoMessage

\* C30: every group chat has at least one user in users.
C30_GroupHasUser ==
    \A c \in DOMAIN chats : chats[c].isGroupChat => Length(chats[c].users) >= 1

\* C31: no error leaves a listener, whatever the payload of the event lacks.
C31_NoThrow == ~io.thrown

\* C32: when sendMessage requests race every message that is created is
\* appended to the messages and none is lost or moved; latestMessage of a
\* chat changes only by the update of a request, to the id of the message
\* that request created; and latestMessage of a chat is unset or the id of a
\* message of that chat.
C32_Step ==
    /\ \/ messages' = messages
       \/ \E s \in DOMAIN reqs :
              /\ reqs[s].pc = "create"
              /\ messages' = Append(messages, NewMessage(reqs[s].chatId, reqs[s].by, "hello"))
    /\ \A c \in DOMAIN chats :
           chats'[c].latestMessage # chats[c].latestMessage =>
               \E s \in DOMAIN reqs :
                   /\ reqs[s].pc = "updateLatest" /\ reqs'[s].pc = "idle"
                   /\ reqs[s].chatId = c
                   /\ chats'[c].latestMessage = reqs[s].created

C32_LatestOfChat ==
    \A c \in DOMAIN chats :
        \/ chats[c].latestMessage = NoMessage
        \/ /\ chats[c].latestMessage \in DOMAIN messages
           /\ messages[chats[c].latestMessage].chat = c

C32_RacingSends == [][C32_Step]_vars /\ []C32_LatestOfChat

\* two requests raced on one chat and are done: both messages are there, and
\* the update of the first one committed last
C32_Witness ==
    /\ \A s \in DOMAIN reqs : reqs[s].pc = "idle"
    /\ Len(messages) = 2
    /\ messages[1].chat = messages[2].chat
    /\ chats[messages[1].chat].latestMessage = 1

\* C34: the sender of a message is in users of its chat at the moment the
\* message is created.
C34_Step ==
    Len(messages') > Len(messages) =>
        LET m == messages'[Len(messages')]
        IN  ElemMatch(chats[m.chat].users, m.sender)

C34_SenderIsMember == [][C34_Step]_vars

C35_Presence ==
    \A u \in SocketUsers :
        io.onlineUsers[u] # NoSocket <=> \E s \in io.sockets : u \in io.setups[s]

\* the user ids an event with users, groupAdmins and the id left out addresses
Addressed(users, groupAdmins, except) ==
    {(users \o groupAdmins)[i] : i \in DOMAIN (users \o groupAdmins)} \ {except}

\* C36: receiveMessage and joinGroupChat reach only connections that have
\* sent setup with the id of a user the event addresses.
C36_Step ==
    /\ SocketEventNow("sendMessage") =>
           LET m == io'.event.message IN
           \A t \in io.sockets :
               SentNow(t) # <<>> =>
                   io.setups[t] \cap Addressed(m.users, m.groupAdmins, m.sender) # {}
    /\ SocketEventNow("joinNewGroupChat") =>
           \A t \in io.sockets :
               \A i \in DOMAIN SentNow(t) :
                   LET chat == SentNow(t)[i].body IN
                   io.setups[t] \cap Addressed(chat.users, chat.groupAdmins,
                                               io'.event.userId) # {}

C36_Confidential == [][C36_Step]_vars

\* C37: one sendMessage or joinNewGroupChat event sends its event to the
\* channel of a user at most once: a connection that is in the channel of one
\* user and in no other is sent at most one event.
C37_Step ==
    (SocketEventNow("sendMessage") \/ SocketEventNow("joinNewGroupChat")) =>
        \A t \in io.sockets :
            (\E u \in SocketUsers : io.rooms[t] = {u}) => Len(SentNow(t)) <= 1

C37_AtMostOnce == [][C37_Step]_vars

\* C38: for every user and every chat getAllChats returns to them, each
\* message counted in unReadCount of the chat is one for which updateReadBy
\* by that user succeeds.
C38_CountedCanBeRead ==
    \A u \in Users :
        \A c \in DOMAIN getAllChats(chats, messages, u) :
            \A m \in DOMAIN messages :
                (/\ messages[m].chat = c
                 /\ messages[m].sender # u
                 /\ ~(u \in Elems(messages[m].readBy)))
                => updateReadBy(chats, messages, u, m).status = "Success"

\* the user is neither in users nor in groupAdmins of the chat
Outsider(cs, c, u) == ~ElemMatch(cs[c].users, u) /\ ~ElemMatch(cs[c].groupAdmins, u)

\* getAllMessages, sendMessage and updateReadBy of the user on the chat are
\* turned down, and getAllChats of the user does not return the chat
TurnedDown(cs, ms, c, u) ==
    /\ getAllMessages(cs, ms, u, c).status # "Success"
    /\ sendMessage(cs, ms, u, c, "hello").status # "Success"
    /\ \A m \in DOMAIN ms :
           ms[m].chat = c => updateReadBy(cs, ms, u, m).status # "Success"
    /\ c \notin DOMAIN getAllChats(cs, ms, u)

\* C39: a successful removeFromGroup of a user who is no admin of the group
\* leaves the user outside the chat and the messages as they are; as long as
\* a user is outside a chat their getAllMessages, sendMessage and
\* updateReadBy on it are turned down and getAllChats does not return it; and
\* no step takes a message away, changes its sender or takes a reader out of
\* its readBy.
C39_Step ==
    /\ (/\ last'.op = "removeFromGroup" /\ last'.status = "Success"
        /\ ~ElemMatch(chats[last'.chatId].groupAdmins, last'.userId))
       => /\ Outsider(chats', last'.chatId, last'.userId)
          /\ TurnedDown(chats', messages', last'.chatId, last'.userId)
          /\ messages' = messages
    /\ \A m \in DOMAIN messages :
           /\ m \in DOMAIN messages'
           /\ messages'[m].sender = messages[m].sender
           /\ messages'[m].chat = messages[m].chat
           /\ messages'[m].content = messages[m].content
           /\ messages[m].readBy \sqsubseteq messages'[m].readBy

C39_OutsiderTurnedDown ==
    \A c \in DOMAIN chats :
        \A u \in Users : Outsider(chats, c, u) => TurnedDown(chats, messages, c, u)

C39_Removed == [][C39_Step]_vars /\ []C39_OutsiderTurnedDown

\* a member who sent a message that another member has read was removed
C39_Witness ==
    /\ last.op = "removeFromGroup" /\ last.status = "Success"
    /\ Outsider(chats, last.chatId, last.userId)
    /\ \E m \in DOMAIN messages :
           /\ messages[m].chat = last.chatId
           /\ messages[m].sender = last.userId
           /\ messages[m].readBy # EmptyBag

====
